---------------------------- MODULE Spec2Model ----------------------------
(***************************************************************************)
(* A model of genalias.py: the run() pipeline (record reading, address     *)
(* normalisation, concurrent DNS resolution, merge, emission) and the      *)
(* merge() algorithm, which is modelled step by step at the granularity of *)
(* one iteration of the while loop of add_merged.                          *)
(*                                                                         *)
(* Addresses are unsigned integers of Bits bits (32 / 128 in the program). *)
(* A network is a record [ver, base, plen]: the family, the base address   *)
(* and the prefix length, as ipaddress.ip_network builds it.               *)
(***************************************************************************)
EXTENDS Integers, Sequences, FiniteSets, TLC

\* ------------------------------------------------------------------ bounds
\* Address width in bits (max_prefixlen of the family).
Bits == 3
\* Largest set handed to merge() in MergeSpec.
MaxNets == 4

\* Most rows read from the dump, after the header line.
MaxRows == 2
\* Most items (raw tokens, domains, URLs) the rows of a run hold in total.
MaxTokens == 3
\* Largest value of --dns-jobs.
MaxJobs == 2
\* Longest time, in seconds, the clock may show as elapsed.
MaxElapsed == 3

None == "None"

VARIABLES
    pc,             \* run: the main flow's position
    dns_jobs,       \* run: parameter dns_jobs
    output_v6,      \* run: parameter output_v6 (None or the second file)
    nrows,          \* rows taken from the reader so far
    budget,         \* items the rows still to come may hold
    row,            \* the current row: items of row[0], row[1], row[2] not yet iterated
    addrs,          \* run: addrs
    raw_addrs,      \* the members of addrs that came from raw-subnet items
    domains,        \* run: domains
    futures,        \* executor.map: the futures not yet yielded, in submission order
    work_queue,     \* ThreadPoolExecutor: work items not yet taken
    results,        \* the futures' state and result, by domain
    worker,         \* the pool's threads: what each is doing
    calls,          \* calls of resolve_dns made so far, by domain
    domains_resolved, \* run: domains_resolved
    progress,       \* the progress lines logged so far
    merged_v4,      \* run: merged_v4
    merged_v6,      \* run: merged_v6
    ei,             \* index of the next network to print
    out,            \* lines written to `output`
    out_v6,         \* lines written to the second file
    closed,         \* the files closed so far
    margs,          \* merge(addrs): the argument, a set of networks
    sorted_addrs,   \* merge: the rest of `addrs = sorted(addrs)` still to iterate
    merged,         \* merge: the accumulator
    addr,           \* add_merged: its parameter / local `addr` (NoAddr outside)
    mpc,            \* merge: "idle" | "sort" | "for" | "while" | "ret"
    round,          \* MergeSpec: 1 = merge(X), 2 = merge(set(merge(X)))
    first           \* MergeSpec: the result of round 1

mergeVars == <<margs, sorted_addrs, merged, addr, mpc>>
inputVars == <<dns_jobs, output_v6, nrows, budget, row>>
poolVars ==
    <<futures, work_queue, results, worker, calls, domains_resolved, progress>>
outVars == <<merged_v4, merged_v6, ei, out, out_v6, closed>>
runVars == <<pc, inputVars, addrs, raw_addrs, domains, poolVars, outVars>>
vars == <<mergeVars, round, first, runVars>>

\* --------------------------------------------------------------- networks
Pow2(n) == 2 ^ n

\* num_addresses of a network of prefix length p
BlockSize(p) == Pow2(Bits - p)

Net(v, b, p) == [ver |-> v, base |-> b, plen |-> p]

\* add_merged is not running: there is no `addr`
NoAddr == Net(0, 0, 0)

\* Every canonical network of family v (host bits zero).
AllNets(v) ==
    { Net(v, k * BlockSize(p), p) : p \in 0..Bits, k \in 0..(Pow2(Bits) - 1) } \cap
    { Net(v, b, p) : p \in 0..Bits, b \in 0..(Pow2(Bits) - 1) }

\* broadcast_address
Broadcast(n) == n.base + BlockSize(n.plen) - 1

\* The individual addresses a network covers.
Covers(n) == { <<n.ver, a>> : a \in n.base..Broadcast(n) }

Covered(S) == UNION { Covers(n) : n \in S }

\* A containment test that forgets the upper end of the range.
SubnetOfNoBroadcast(a, b) == b.base <= a.base

\* A containment test with its operands swapped (prev.subnet_of(addr)).
SubnetOfSwapped(a, b) == a.base <= b.base /\ Broadcast(a) >= Broadcast(b)

\* a.subnet_of(b); merge() only compares networks of one family
SubnetOf(a, b) == b.base <= a.base /\ Broadcast(b) >= Broadcast(a)

\* a.supernet(): prefix 0 is its own supernet
Supernet(a) ==
    IF a.plen = 0 THEN a
    ELSE Net(a.ver, a.base - (a.base % BlockSize(a.plen - 1)), a.plen - 1)

\* tuple(a.subnets()): a host network yields itself only
Subnets(a) ==
    IF a.plen = Bits THEN <<a>>
    ELSE << Net(a.ver, a.base, a.plen + 1),
            Net(a.ver, a.base + BlockSize(a.plen + 1), a.plen + 1) >>

\* An ordering by prefix length first.
NetLtByPrefixFirst(a, b) ==
    a.plen > b.plen \/ (a.plen = b.plen /\ a.base < b.base)

\* _BaseNetwork.__lt__: by network_address, then by netmask

NetLt(a, b) ==
    a.base < b.base \/ (a.base = b.base /\ a.plen < b.plen)

RECURSIVE SortNets(_)
\* sorted(addrs)
SortNets(S) ==
    IF S = {} THEN <<>>
    ELSE LET m == CHOOSE x \in S : \A y \in S : x = y \/ NetLt(x, y)
         IN  <<m>> \o SortNets(S \ {m})

Range(s) == { s[i] : i \in 1..Len(s) }

Front(s) == SubSeq(s, 1, Len(s) - 1)

\* ------------------------------------------------------------------ merge
\* line 19-23: addrs = sorted(addrs); empty input returns []
MergeSort ==
    /\ mpc = "sort"
    /\ sorted_addrs' = SortNets(margs)
    /\ merged' = <<>>
    /\ mpc' = IF margs = {} THEN "ret" ELSE "for"
    /\ UNCHANGED <<margs, addr, round, first, runVars>>

\* line 40-43: for addr in addrs: add_merged(addr); return merged
MergeFor ==
    /\ mpc = "for"
    /\ IF sorted_addrs = <<>>
       THEN /\ mpc' = "ret"
            /\ UNCHANGED <<sorted_addrs, addr>>
       ELSE /\ addr' = Head(sorted_addrs)
            /\ sorted_addrs' = Tail(sorted_addrs)
            /\ mpc' = "while"
    /\ UNCHANGED <<margs, merged, round, first, runVars>>

\* The sibling test with the pair in the wrong order.
IsSiblingPairSwapped(prev, a) == Subnets(Supernet(a)) = <<a, prev>>

\* line 32: tuple(addr_super.subnets()) == (prev, addr)
IsSiblingPair(prev, a) == Subnets(Supernet(a)) = <<prev, a>>

\* A skip that leaves the loop instead of returning: addr is appended.
AddMergedSkipAppends ==
    /\ mpc = "while"
    /\ merged # <<>>
    /\ SubnetOf(addr, merged[Len(merged)])
    /\ merged' = Append(merged, addr)
    /\ mpc' = "for"
    /\ addr' = NoAddr
    /\ UNCHANGED <<margs, sorted_addrs, round, first, runVars>>

\* line 26-29: addr is a subnet of the last entry: return
AddMergedSkip ==
    /\ mpc = "while"
    /\ merged # <<>>
    /\ SubnetOf(addr, merged[Len(merged)])
    /\ mpc' = "for"
    /\ addr' = NoAddr
    /\ UNCHANGED <<margs, sorted_addrs, merged, round, first, runVars>>

\* A collapse that is not repeated: `if` in place of `while`.
AddMergedCollapseOnce ==
    /\ mpc = "while"
    /\ merged # <<>>
    /\ ~SubnetOf(addr, merged[Len(merged)])
    /\ IsSiblingPair(merged[Len(merged)], addr)
    /\ merged' = Append(Front(merged), Supernet(addr))
    /\ addr' = NoAddr
    /\ mpc' = "for"
    /\ UNCHANGED <<margs, sorted_addrs, round, first, runVars>>

\* line 31-36: prev and addr are the halves of addr's supernet:
\* addr = addr_super; del merged[-1]; loop again
AddMergedCollapse ==
    /\ mpc = "while"
    /\ merged # <<>>
    /\ ~SubnetOf(addr, merged[Len(merged)])
    /\ IsSiblingPair(merged[Len(merged)], addr)
    /\ addr' = Supernet(addr)
    /\ merged' = Front(merged)
    /\ UNCHANGED <<margs, sorted_addrs, mpc, round, first, runVars>>

\* line 26, 33, 38: the loop ends (accumulator empty, or break): append
AddMergedAppend ==
    /\ mpc = "while"
    /\ \/ merged = <<>>
       \/ /\ merged # <<>>
          /\ ~SubnetOf(addr, merged[Len(merged)])
          /\ ~IsSiblingPair(merged[Len(merged)], addr)
    /\ merged' = Append(merged, addr)
    /\ addr' = NoAddr
    /\ mpc' = "for"
    /\ UNCHANGED <<margs, sorted_addrs, round, first, runVars>>

MergeStep ==
    \/ MergeSort
    \/ MergeFor
    \/ AddMergedSkip
    \/ AddMergedCollapse
    \/ AddMergedAppend

\* ------------------------------------------------------- AddressNormalizer
\* A raw item or a resolved address as text: ver = 0 is text that is no IP
\* address or network; otherwise the family, the address and the prefix.
Tok(v, a, h) == [ver |-> v, addr |-> a, plen |-> Bits - h]

\* line 81: ipaddress.ip_network(addr) raises on text that is no network and,
\* being strict, on an address with host bits set
Parses(t) ==
    /\ t.ver \in {4, 6}
    /\ t.plen \in 0..Bits
    /\ t.addr \in 0..(Pow2(Bits) - 1)
    /\ t.addr % BlockSize(t.plen) = 0

IpNetwork(t) == Net(t.ver, t.addr, t.plen)

\* The special ranges of the address space, scaled to the model's width and
\* in the order they have there: 0.0.0.0 inside the private 0.0.0.0/8, the
\* link-local block among the private ones, public addresses on both sides of
\* the loopback block, the multicast and the reserved block at the top.
UnspecifiedRange == {0}
PrivateRange == {0, 1}
LinkLocalRange == {1}
LoopbackRange == {3}
MulticastRange == {6}
ReservedRange == {7}

\* A network property of ipaddress: the network address and the broadcast
\* address both lie in the range.
InRange(n, R) == n.base \in R /\ Broadcast(n) \in R

\* ipaddress lists the unspecified, loopback, link-local and reserved blocks
\* among its private networks; a network is private when one of them holds
\* both its ends
IsPrivate(n) ==
    \/ InRange(n, PrivateRange)
    \/ InRange(n, UnspecifiedRange)
    \/ InRange(n, LoopbackRange)
    \/ InRange(n, LinkLocalRange)
    \/ InRange(n, ReservedRange)

\* line 87-109: the six tests, any of which rejects the network
Rejected(n) ==
    \/ InRange(n, MulticastRange)
    \/ IsPrivate(n)
    \/ InRange(n, UnspecifiedRange)
    \/ InRange(n, ReservedRange)
    \/ InRange(n, LoopbackRange)
    \/ InRange(n, LinkLocalRange)

\* An add_addr that puts the network into the set before it tests it.
AddAddrEarly(S, t) ==
    IF ~Parses(t) THEN S
    ELSE S \cup {IpNetwork(t)}

\* line 79-111: add_addr(addr) as the value of addrs after the call
AddAddr(S, t) ==
    IF ~Parses(t) THEN S
    ELSE IF Rejected(IpNetwork(t)) THEN S
    ELSE S \cup {IpNetwork(t)}

\* Resolved addresses put into the set without add_addr.
AddAllUnfiltered(S, T) == S \cup { IpNetwork(t) : t \in T }

RECURSIVE AddAll(_, _)
\* line 144-145: for addr in resolved_addrs: add_addr(addr)
AddAll(S, T) ==
    IF T = {} THEN S
    ELSE LET t == CHOOSE x \in T : TRUE
         IN  AddAll(AddAddr(S, t), T \ {t})

\* The raw-subnet items a row may hold.
RawTokens ==
    { [ver |-> 0, addr |-> 0, plen |-> 0],  \* text that is no address
      Tok(4, 5, 1),                          \* host bits set
      Tok(4, 4, 0), Tok(4, 5, 0),            \* two public hosts, siblings
      Tok(4, 4, 1),                          \* the public block holding them
      Tok(4, 4, 2),                          \* a block reaching over 6 and 7
      Tok(4, 0, 3),                          \* a block reaching over 0..7
      Tok(4, 0, 0), Tok(4, 1, 0), Tok(4, 3, 0),
      Tok(4, 6, 0), Tok(4, 7, 0),            \* one host of each special range
      Tok(4, 0, 1),                          \* the private block
      Tok(4, 2, 0),                          \* a public host below loopback
      Tok(6, 4, 0), Tok(6, 5, 0) }           \* IPv6 hosts

\* ---------------------------------------------------------- FieldExtractor
\* Text is a sequence of one-character strings. A hostname of None is the
\* one-element sequence NoneHost, which is no text.
NoneHost == <<None>>

\* line 121-122: a leading '*.' is cut off
StripWildcard(d) ==
    IF Len(d) >= 2 /\ SubSeq(d, 1, 2) = <<"*", ".">>
    THEN SubSeq(d, 3, Len(d))
    ELSE d

\* The domain items a row may hold.
DomainTokens == { <<"a">>, <<"*", ".", "a">>, <<"*", ".">>, <<"b">> }

Lower(c) == IF c = "A" THEN "a" ELSE IF c = "B" THEN "b" ELSE c

\* A URL item: whether urlsplit accepts it, whether it has a '//' authority
\* part, and the host written there.
Url(ok, auth, h) == [valid |-> ok, netloc |-> auth, host |-> h]

\* line 129: urllib.parse.urlsplit(url, scheme='http').hostname. The default
\* scheme does not make a bare 'host/path' an authority: its hostname is None.
Hostname(u) ==
    IF ~u.netloc \/ u.host = <<>> THEN NoneHost
    ELSE [i \in 1..Len(u.host) |-> Lower(u.host[i])]

\* The URL items a row may hold: 'http://A/x', 'b/x', 'http://[b/x'.
UrlTokens ==
    { Url(TRUE, TRUE, <<"A">>), Url(TRUE, FALSE, <<"b">>), Url(FALSE, TRUE, <<"b">>) }

\* Every value the domain set may come to hold.
AllDomains ==
    ({ StripWildcard(d) : d \in DomainTokens } \ {<<>>}) \cup
    { Hostname(u) : u \in { x \in UrlTokens : x.valid } }

\* The shape of a row: how many items each of its three fields holds.
RowShapes(n) ==
    { [raw |-> r, dom |-> d, url |-> u] :
        r \in 0..n, d \in 0..n, u \in 0..n } \cap
    { sh \in [raw : 0..n, dom : 0..n, url : 0..n] : sh.raw + sh.dom + sh.url <= n }

NoRow == [raw |-> 0, dom |-> 0, url |-> 0]

\* ------------------------------------------------------------ run: reading
\* line 113: for row in reader: the next row
NextRow ==
    /\ pc = "rows"
    /\ nrows < MaxRows
    /\ \E sh \in RowShapes(budget) :
          /\ row' = sh
          /\ budget' = budget - (sh.raw + sh.dom + sh.url)
    /\ nrows' = nrows + 1
    /\ pc' = "raw"
    /\ UNCHANGED <<dns_jobs, output_v6, addrs, raw_addrs, domains, poolVars,
                   outVars, mergeVars, round, first>>

\* line 114-115: for addr in iter_field(row[0]): add_addr(addr)
ReadRaw ==
    /\ pc = "raw"
    /\ row.raw > 0
    /\ \E t \in RawTokens :
          /\ addrs' = AddAddr(addrs, t)
          /\ raw_addrs' = AddAddr(raw_addrs, t)
    /\ row' = [row EXCEPT !.raw = @ - 1]
    /\ UNCHANGED <<pc, dns_jobs, output_v6, nrows, budget, domains,
                   poolVars, outVars, mergeVars, round, first>>

\* A run that reads the domain and URL fields whatever dns_jobs is.
SkipsDomainsNever == FALSE

\* line 117: if not dns_jobs
SkipsDomains == dns_jobs = 0

\* line 117-118: the raw field is done: continue, or go on to row[1]
RawDone ==
    /\ pc = "raw"
    /\ row.raw = 0
    /\ pc' = IF SkipsDomains THEN "rows" ELSE "dom"
    /\ UNCHANGED <<dns_jobs, output_v6, nrows, budget, row, addrs, raw_addrs,
                   domains, poolVars, outVars, mergeVars, round, first>>

\* line 120-125: a domain item, its wildcard cut off, joins the set unless empty
ReadDomain ==
    /\ pc = "dom"
    /\ row.dom > 0
    /\ \E d \in DomainTokens :
          domains' = IF StripWildcard(d) # <<>>
                     THEN domains \cup {StripWildcard(d)}
                     ELSE domains
    /\ row' = [row EXCEPT !.dom = @ - 1]
    /\ UNCHANGED <<pc, dns_jobs, output_v6, nrows, budget, addrs, raw_addrs,
                   poolVars, outVars, mergeVars, round, first>>

\* line 120, 127: row[1] is done
DomDone ==
    /\ pc = "dom"
    /\ row.dom = 0
    /\ pc' = "url"
    /\ UNCHANGED <<dns_jobs, output_v6, nrows, budget, row, addrs, raw_addrs,
                   domains, poolVars, outVars, mergeVars, round, first>>

\* line 127-132: the hostname of a URL item joins the set; a URL that
\* urlsplit refuses is logged and adds nothing
ReadUrl ==
    /\ pc = "url"
    /\ row.url > 0
    /\ \E u \in UrlTokens :
          domains' = IF u.valid THEN domains \cup {Hostname(u)} ELSE domains
    /\ row' = [row EXCEPT !.url = @ - 1]
    /\ UNCHANGED <<pc, dns_jobs, output_v6, nrows, budget, addrs, raw_addrs,
                   poolVars, outVars, mergeVars, round, first>>

\* line 127, 113: row[2] is done: on to the next row
UrlDone ==
    /\ pc = "url"
    /\ row.url = 0
    /\ pc' = "rows"
    /\ UNCHANGED <<dns_jobs, output_v6, nrows, budget, row, addrs, raw_addrs,
                   domains, poolVars, outVars, mergeVars, round, first>>

\* line 113, 134-136: the reader is exhausted; the loop's variables are dead
EndOfInput ==
    /\ pc = "rows"
    /\ pc' = IF dns_jobs # 0 THEN "submit" ELSE "merge4"
    /\ nrows' = 0
    /\ budget' = 0
    /\ row' = NoRow
    /\ UNCHANGED <<dns_jobs, output_v6, addrs, raw_addrs, domains, poolVars,
                   outVars, mergeVars, round, first>>

\* ------------------------------------------------------ run: resolution
Workers == 1..MaxJobs

Idle == [st |-> "idle", dom |-> <<>>]

Pending == [done |-> FALSE, res |-> {}]

\* What one successful getaddrinfo call may return: the sockaddr[0] values
\* of its entries, an address once for every socket type it is listed with.
Answers ==
    { <<Tok(4, 5, 0), Tok(4, 5, 0), Tok(6, 4, 0)>>,
      <<Tok(4, 4, 0), Tok(4, 3, 0)>> }

\* line 143, executor.map: one more domain of the set is submitted; the set
\* is iterated in no particular order
SubmitOne ==
    /\ pc = "submit"
    /\ \E d \in domains \ Range(futures) :
          /\ futures' = Append(futures, d)
          /\ work_queue' = Append(work_queue, d)
    /\ UNCHANGED <<pc, inputVars, addrs, raw_addrs, domains, results, worker,
                   calls, domains_resolved, progress, outVars, mergeVars, round, first>>

\* line 143, executor.map: every domain is submitted; the results are
\* now yielded in submission order
SubmitDone ==
    /\ pc = "submit"
    /\ Range(futures) = domains
    /\ pc' = "collect"
    /\ UNCHANGED <<inputVars, addrs, raw_addrs, domains, poolVars, outVars,
                   mergeVars, round, first>>

\* A queue whose head stays in place when it is taken.
DequeueKeep(q) == q

\* ThreadPoolExecutor: work_queue.get removes the item it returns
Dequeue(q) == Tail(q)

\* A pool that starts a thread for every work item, whatever max_workers is.
TakeUnbounded(w) ==
    /\ worker[w].st = "idle"
    /\ work_queue # <<>>
    /\ worker' = [worker EXCEPT ![w] = [st |-> "lookup", dom |-> Head(work_queue)]]
    /\ calls' = [calls EXCEPT ![Head(work_queue)] = @ + 1]
    /\ work_queue' = Dequeue(work_queue)
    /\ UNCHANGED <<pc, inputVars, addrs, raw_addrs, domains, futures, results,
                   domains_resolved, progress, outVars, mergeVars, round, first>>

\* line 142-143, 46-49: an idle thread of the pool takes the next work item
\* and calls resolve_dns(domain)
Take(w) ==
    /\ w <= dns_jobs
    /\ worker[w].st = "idle"
    /\ work_queue # <<>>
    /\ worker' = [worker EXCEPT ![w] = [st |-> "lookup", dom |-> Head(work_queue)]]
    /\ calls' = [calls EXCEPT ![Head(work_queue)] = @ + 1]
    /\ work_queue' = Dequeue(work_queue)
    /\ UNCHANGED <<pc, inputVars, addrs, raw_addrs, domains, futures, results,
                   domains_resolved, progress, outVars, mergeVars, round, first>>

\* A thread of the pool that puts the addresses into the shared set itself.
LookupOkInserts(w) ==
    /\ worker[w].st = "lookup"
    /\ \E ans \in Answers :
          /\ results' = [results EXCEPT ![worker[w].dom] =
                                        [done |-> TRUE, res |-> Range(ans)]]
          /\ addrs' = AddAll(addrs, Range(ans))
    /\ worker' = [worker EXCEPT ![w] = Idle]
    /\ UNCHANGED <<pc, inputVars, raw_addrs, domains, futures, work_queue,
                   calls, domains_resolved, progress, outVars, mergeVars, round, first>>

\* line 47, 51-52, 62: getaddrinfo returns; resolve_dns returns the set of
\* the addresses
LookupOk(w) ==
    /\ worker[w].st = "lookup"
    /\ \E ans \in Answers :
          results' = [results EXCEPT ![worker[w].dom] =
                                     [done |-> TRUE, res |-> Range(ans)]]
    /\ worker' = [worker EXCEPT ![w] = Idle]
    /\ UNCHANGED <<pc, inputVars, addrs, raw_addrs, domains, futures, work_queue,
                   calls, domains_resolved, progress, outVars, mergeVars, round, first>>

\* A failed lookup whose future is never completed.
LookupFailLost(w) ==
    /\ worker[w].st = "lookup"
    /\ worker' = [worker EXCEPT ![w] = Idle]
    /\ UNCHANGED <<pc, inputVars, addrs, raw_addrs, domains, futures, work_queue,
                   results, calls, domains_resolved, progress, outVars, mergeVars,
                   round, first>>

\* line 54-57, 62: getaddrinfo raises, not with EAI_AGAIN; resolve_dns logs
\* it and returns the empty set
LookupFail(w) ==
    /\ worker[w].st = "lookup"
    /\ results' = [results EXCEPT ![worker[w].dom] = [done |-> TRUE, res |-> {}]]
    /\ worker' = [worker EXCEPT ![w] = Idle]
    /\ UNCHANGED <<pc, inputVars, addrs, raw_addrs, domains, futures, work_queue,
                   calls, domains_resolved, progress, outVars, mergeVars, round, first>>

\* line 54-59: getaddrinfo raises with EAI_AGAIN; resolve_dns sleeps
LookupAgain(w) ==
    /\ worker[w].st = "lookup"
    /\ worker' = [worker EXCEPT ![w].st = "sleep"]
    /\ UNCHANGED <<pc, inputVars, addrs, raw_addrs, domains, futures, work_queue,
                   results, calls, domains_resolved, progress, outVars, mergeVars,
                   round, first>>

\* A loop that is left after the sleep: resolve_dns returns the empty set.
WakeReturns(w) ==
    /\ worker[w].st = "sleep"
    /\ results' = [results EXCEPT ![worker[w].dom] = [done |-> TRUE, res |-> {}]]
    /\ worker' = [worker EXCEPT ![w] = Idle]
    /\ UNCHANGED <<pc, inputVars, addrs, raw_addrs, domains, futures, work_queue,
                   calls, domains_resolved, progress, outVars, mergeVars, round, first>>

\* line 59-60, 49-51: the sleep ends; the loop calls getaddrinfo again
Wake(w) ==
    /\ worker[w].st = "sleep"
    /\ worker' = [worker EXCEPT ![w].st = "lookup"]
    /\ UNCHANGED <<pc, inputVars, addrs, raw_addrs, domains, futures, work_queue,
                   results, calls, domains_resolved, progress, outVars, mergeVars,
                   round, first>>

\* line 155: the numbers of a progress line: domains_resolved and
\* len(domains)
Event(n, total) == [resolved |-> n, total |-> total]

\* line 148: progress_percent = domains_resolved / len(domains) * 100, as
\* %d prints it
ProgressPercent(ev) == (ev.resolved * 100) \div ev.total

\* line 152: remaining_seconds =
\*     elapsed_seconds / domains_resolved * (len(domains) - domains_resolved)
\* in whole seconds
RemainingSeconds(elapsed, ev) ==
    (elapsed \div ev.resolved) * (ev.total - ev.resolved)

\* A loop that logs its progress before it counts the domain.
CollectCountsLate ==
    /\ pc = "collect"
    /\ futures # <<>>
    /\ results[Head(futures)].done
    /\ addrs' = AddAll(addrs, results[Head(futures)].res)
    /\ progress' = Append(progress, Event(domains_resolved, Cardinality(domains)))
    /\ domains_resolved' = domains_resolved + 1
    /\ futures' = Tail(futures)
    /\ UNCHANGED <<pc, inputVars, raw_addrs, domains, work_queue, results,
                   worker, calls, outVars, mergeVars, round, first>>

\* line 143-155: the next future in submission order is done: executor.map
\* takes it off its list and yields its result; the addresses go through
\* add_addr, the domain is counted and the progress is logged
Collect ==
    /\ pc = "collect"
    /\ futures # <<>>
    /\ results[Head(futures)].done
    /\ addrs' = AddAll(addrs, results[Head(futures)].res)
    /\ domains_resolved' = domains_resolved + 1
    /\ progress' = Append(progress, Event(domains_resolved + 1, Cardinality(domains)))
    /\ futures' = Tail(futures)
    /\ UNCHANGED <<pc, inputVars, raw_addrs, domains, work_queue, results,
                   worker, calls, outVars, mergeVars, round, first>>

\* A loop over the results that ends after the first of them.
MapExhaustedEarly == domains_resolved >= 1

\* line 143: executor.map has yielded the result of every future
MapExhausted == futures = <<>>

\* line 142, 157: the with block ends: shutdown(wait=True) returns when every
\* work item is done and every thread has ended
ExitPool ==
    /\ pc = "collect"
    /\ MapExhausted
    /\ work_queue = <<>>
    /\ \A w \in Workers : worker[w].st = "idle"
    /\ pc' = "merge4"
    /\ UNCHANGED <<inputVars, addrs, raw_addrs, domains, poolVars, outVars,
                   mergeVars, round, first>>

\* ------------------------------------------------- run: merge and output
\* line 159: merge(addr for addr in addrs if addr.version == 4) is called
CallMergeV4 ==
    /\ pc = "merge4"
    /\ margs' = { n \in addrs : n.ver = 4 }
    /\ mpc' = "sort"
    /\ pc' = "merging4"
    /\ UNCHANGED <<sorted_addrs, merged, addr, round, first, inputVars, addrs,
                   raw_addrs, domains, poolVars, outVars>>

\* line 159: merged_v4 = the list merge returned
ReturnMergeV4 ==
    /\ pc = "merging4"
    /\ mpc = "ret"
    /\ merged_v4' = merged
    /\ mpc' = "idle"
    /\ margs' = {}
    /\ merged' = <<>>
    /\ pc' = "merge6"
    /\ UNCHANGED <<sorted_addrs, addr, round, first, inputVars, addrs, raw_addrs,
                   domains, poolVars, merged_v6, ei, out, out_v6, closed>>

\* line 160: merge(addr for addr in addrs if addr.version == 6) is called
CallMergeV6 ==
    /\ pc = "merge6"
    /\ margs' = { n \in addrs : n.ver = 6 }
    /\ mpc' = "sort"
    /\ pc' = "merging6"
    /\ UNCHANGED <<sorted_addrs, merged, addr, round, first, inputVars, addrs,
                   raw_addrs, domains, poolVars, outVars>>

\* line 160: merged_v6 = the list merge returned
ReturnMergeV6 ==
    /\ pc = "merging6"
    /\ mpc = "ret"
    /\ merged_v6' = merged
    /\ mpc' = "idle"
    /\ margs' = {}
    /\ merged' = <<>>
    /\ pc' = "emit4"
    /\ ei' = 1
    /\ UNCHANGED <<sorted_addrs, addr, round, first, inputVars, addrs, raw_addrs,
                   domains, poolVars, merged_v4, out, out_v6, closed>>

\* line 165-166: the next IPv4 network is printed to output
PrintV4 ==
    /\ pc = "emit4"
    /\ ei <= Len(merged_v4)
    /\ out' = Append(out, merged_v4[ei])
    /\ ei' = ei + 1
    /\ UNCHANGED <<pc, inputVars, addrs, raw_addrs, domains, poolVars, merged_v4,
                   merged_v6, out_v6, closed, mergeVars, round, first>>

\* A switch that closes output in both branches.
SwitchOutputCloses ==
    /\ pc = "emit4"
    /\ ei > Len(merged_v4)
    /\ output_v6' = IF output_v6 = None THEN "output" ELSE output_v6
    /\ closed' = closed \cup {"output"}
    /\ pc' = "emit6"
    /\ ei' = 1
    /\ UNCHANGED <<dns_jobs, nrows, budget, row, addrs, raw_addrs, domains,
                   poolVars, merged_v4, merged_v6, out, out_v6, mergeVars, round, first>>

\* line 168-171: without a second file output_v6 becomes output; with one,
\* output is closed
SwitchOutput ==
    /\ pc = "emit4"
    /\ ei > Len(merged_v4)
    /\ IF output_v6 = None
       THEN output_v6' = "output" /\ closed' = closed
       ELSE output_v6' = output_v6 /\ closed' = closed \cup {"output"}
    /\ pc' = "emit6"
    /\ ei' = 1
    /\ UNCHANGED <<dns_jobs, nrows, budget, row, addrs, raw_addrs, domains,
                   poolVars, merged_v4, merged_v6, out, out_v6, mergeVars, round, first>>

\* line 173-174: the next IPv6 network is printed to output_v6
PrintV6 ==
    /\ pc = "emit6"
    /\ ei <= Len(merged_v6)
    /\ IF output_v6 = "output"
       THEN out' = Append(out, merged_v6[ei]) /\ out_v6' = out_v6
       ELSE out_v6' = Append(out_v6, merged_v6[ei]) /\ out' = out
    /\ ei' = ei + 1
    /\ UNCHANGED <<pc, inputVars, addrs, raw_addrs, domains, poolVars, merged_v4,
                   merged_v6, closed, mergeVars, round, first>>

\* line 176: output_v6.close()
CloseV6 ==
    /\ pc = "emit6"
    /\ ei > Len(merged_v6)
    /\ closed' = closed \cup {output_v6}
    /\ pc' = "done"
    /\ UNCHANGED <<inputVars, addrs, raw_addrs, domains, poolVars, merged_v4,
                   merged_v6, ei, out, out_v6, mergeVars, round, first>>

\* ------------------------------------------------------------------- Spec
\* The state of the pool, the outputs and merge before anything has run.
PoolInit ==
    /\ futures = <<>>
    /\ work_queue = <<>>
    /\ results = [d \in AllDomains |-> Pending]
    /\ worker = [w \in Workers |-> Idle]
    /\ calls = [d \in AllDomains |-> 0]
    /\ domains_resolved = 0
    /\ progress = <<>>

OutInit ==
    /\ merged_v4 = <<>>
    /\ merged_v6 = <<>>
    /\ ei = 1
    /\ out = <<>>
    /\ out_v6 = <<>>
    /\ closed = {}

\* line 72-77: run is called on a dump of at most n items; the header line
\* is read and dropped
RunInit(n) ==
    /\ pc = "rows"
    /\ dns_jobs \in 0..MaxJobs
    /\ output_v6 \in {None, "second"}
    /\ nrows = 0
    /\ budget = n
    /\ row = NoRow
    /\ addrs = {}
    /\ raw_addrs = {}
    /\ domains = {}
    /\ PoolInit
    /\ OutInit
    /\ margs = {}
    /\ sorted_addrs = <<>>
    /\ merged = <<>>
    /\ addr = NoAddr
    /\ mpc = "idle"
    /\ round = 1
    /\ first = <<>>

Init == RunInit(MaxTokens)

\* The steps of the main flow.
MainStep ==
    \/ NextRow
    \/ ReadRaw
    \/ RawDone
    \/ ReadDomain
    \/ DomDone
    \/ ReadUrl
    \/ UrlDone
    \/ EndOfInput
    \/ SubmitOne
    \/ SubmitDone
    \/ Collect
    \/ ExitPool
    \/ CallMergeV4
    \/ ReturnMergeV4
    \/ CallMergeV6
    \/ ReturnMergeV6
    \/ MergeStep
    \/ PrintV4
    \/ SwitchOutput
    \/ PrintV6
    \/ CloseV6

\* The steps of one thread of the pool.
WorkerStep(w) ==
    \/ Take(w)
    \/ LookupOk(w)
    \/ LookupFail(w)
    \/ LookupAgain(w)
    \/ Wake(w)

Next ==
    \/ MainStep
    \/ \E w \in Workers : WorkerStep(w)

Spec == Init /\ [][Next]_vars

\* The threads are scheduled by the operating system: the main flow and every
\* thread of the pool keep taking the steps open to them.
\* Termination is checked for dumps of one item less than the safety claims.
FairSpec ==
    /\ RunInit(MaxTokens - 1)
    /\ [][Next]_vars
    /\ WF_vars(MainStep)
    /\ \A w \in Workers : WF_vars(WorkerStep(w))

\* -------------------------------------------------------------- MergeSpec
\* The caller builds the argument one network at a time (addrs.add), from
\* the canonical networks of one family.
MergeInit ==
    /\ pc = "idle"
    /\ dns_jobs = 0
    /\ output_v6 = None
    /\ nrows = 0
    /\ budget = 0
    /\ row = NoRow
    /\ addrs = {}
    /\ raw_addrs = {}
    /\ domains = {}
    /\ PoolInit
    /\ OutInit
    /\ margs = {}
    /\ sorted_addrs = <<>>
    /\ merged = <<>>
    /\ addr = NoAddr
    /\ mpc = "input"
    /\ round = 1
    /\ first = <<>>

\* one more network joins the argument
MergeInput ==
    /\ mpc = "input"
    /\ Cardinality(margs) < MaxNets
    /\ \E n \in AllNets(4) \ margs : margs' = margs \cup {n}
    /\ UNCHANGED <<sorted_addrs, merged, addr, mpc, round, first, runVars>>

\* merge(X) is called
MergeCall ==
    /\ mpc = "input"
    /\ mpc' = "sort"
    /\ UNCHANGED <<margs, sorted_addrs, merged, addr, round, first, runVars>>

\* merge(set(merge(X))): the result of round 1 is merged again
MergeAgain ==
    /\ mpc = "ret"
    /\ round = 1
    /\ first' = merged
    /\ margs' = Range(merged)
    /\ round' = 2
    /\ mpc' = "sort"
    /\ UNCHANGED <<sorted_addrs, merged, addr, runVars>>

MergeNext ==
    \/ MergeInput
    \/ MergeCall
    \/ MergeStep
    \/ MergeAgain

MergeSpec == MergeInit /\ [][MergeNext]_vars

\* ------------------------------------------------------- claims about run
\* The addresses of the six excluded categories.
ExcludedAddrs ==
    MulticastRange \cup PrivateRange \cup UnspecifiedRange \cup
    ReservedRange \cup LoopbackRange \cup LinkLocalRange

\* The positions of the main flow once the resolution phase is behind it.
AfterResolution ==
    {"merge4", "merging4", "merge6", "merging6", "emit4", "emit6", "done"}

\* C4: exclusion correctness. No network written to either output covers an
\* address of an excluded category.
C4_NoExcludedCovered ==
    \A n \in Range(out) \cup Range(out_v6) :
        \A a \in n.base..Broadcast(n) : a \notin ExcludedAddrs

\* C5: resolution completeness. No domain is ever given to resolve_dns twice
\* or to two threads at once, and once the resolution phase has ended every
\* domain of the set has been given to it once and its call has returned.
C5_AttemptedOnce ==
    /\ \A d \in AllDomains : calls[d] <= 1
    /\ \A v, w \in Workers :
          (v # w /\ worker[v].st # "idle" /\ worker[w].st # "idle")
              => worker[v].dom # worker[w].dom
    /\ (dns_jobs # 0 /\ pc \in AfterResolution) =>
          /\ \A d \in domains : calls[d] = 1 /\ results[d].done
          /\ \A d \in AllDomains \ domains : calls[d] = 0

\* the resolution phase has ended with two threads and two or more domains,
\* one lookup having failed and one having returned addresses
C5_Witness ==
    /\ pc = "merge4"
    /\ dns_jobs = 2
    /\ Cardinality(domains) >= 2
    /\ \E d \in domains : results[d].res = {}
    /\ \E d \in domains : results[d].res # {}

\* C6: resolution barrier. Whenever merge is about to read the address set,
\* is running, or a line has been written, no thread of the pool is at work,
\* no work item and no future is left, and every domain's result has gone
\* through add_addr.
C6_Barrier ==
    (pc \in AfterResolution \/ mpc # "idle" \/ out # <<>> \/ out_v6 # <<>>) =>
        /\ futures = <<>>
        /\ work_queue = <<>>
        /\ \A w \in Workers : worker[w].st = "idle"
        /\ dns_jobs # 0 =>
              /\ domains_resolved = Cardinality(domains)
              /\ \A d \in domains :
                    /\ results[d].done
                    /\ \A t \in results[d].res : AddAddr(addrs, t) = addrs

\* merge is running on an address set that two or more domains were
\* resolved into
C6_Witness ==
    /\ pc = "merging4"
    /\ mpc = "while"
    /\ dns_jobs # 0
    /\ Cardinality(domains) >= 2
    /\ addrs # raw_addrs

\* C7: with dns_jobs = 0 the domain set stays empty, resolve_dns is never
\* called, nothing is submitted to the pool, and the address set, and what
\* merge is given, hold only networks that came from raw-subnet items.
C7_NoResolutionWhenDisabled ==
    dns_jobs = 0 =>
        /\ domains = {}
        /\ \A d \in AllDomains : calls[d] = 0 /\ ~results[d].done
        /\ futures = <<>>
        /\ work_queue = <<>>
        /\ \A w \in Workers : worker[w].st = "idle"
        /\ addrs = raw_addrs
        /\ margs \subseteq raw_addrs
        /\ pc \notin {"dom", "url", "submit", "collect"}

\* with dns_jobs = 0, a row holding domain and URL items has been read and
\* left behind, and its raw item is in the address set
C7_Witness ==
    /\ dns_jobs = 0
    /\ pc = "rows"
    /\ nrows >= 1
    /\ row.dom > 0
    /\ row.url > 0
    /\ addrs # {}

\* C8 as claimed: every run reaches its end, whatever the lookups do.
C8_AlwaysEnds == <>(pc = "done")

\* C8: every run reaches its end, unless some thread of the pool is put to
\* sleep by a transient failure again and again without end.
C8_EndsUnlessRetriedForever ==
    (\A w \in Workers : <>[](worker[w].st # "sleep")) => <>(pc = "done")

\* a run has ended with output written, one of its domains having failed
\* for good and another having returned addresses
C8_Witness ==
    /\ pc = "done"
    /\ dns_jobs # 0
    /\ \E d \in domains : results[d].done /\ results[d].res = {}
    /\ \E d \in domains : results[d].res # {}
    /\ out # <<>>

\* ----------------------------------------------------- claims about merge
\* a and b are the lower and upper half of a network one bit wider
HalvesOfParent(a, b) ==
    /\ a.plen = b.plen
    /\ a.plen > 0
    /\ b.base = a.base + BlockSize(a.plen)
    /\ a.base % BlockSize(a.plen - 1) = 0

\* a lies inside b and is not b
StrictlyInside(a, b) == a # b /\ Covers(a) \subseteq Covers(b)

\* C1: union preservation. When merge returns, the addresses covered by the
\* result are exactly the addresses covered by the argument.
C1_UnionPreserved ==
    mpc = "ret" => Covered(Range(merged)) = Covered(margs)

\* merge(X) has returned for an X in which a pair collapsed into a parent that
\* X does not hold and a contained network was skipped
C1_Witness ==
    /\ mpc = "ret"
    /\ round = 1
    /\ \E n \in Range(merged) : n \notin margs
    /\ \E a, b \in margs : StrictlyInside(a, b)

\* C2: minimality. When merge returns, no two networks of the result are the
\* two halves of a common parent one bit wider.
C2_Minimal ==
    mpc = "ret" =>
        \A i, j \in 1..Len(merged) : ~HalvesOfParent(merged[i], merged[j])

\* merge(X) has returned for an X holding two halves of a parent, with a
\* result of two or more networks
C2_Witness ==
    /\ mpc = "ret"
    /\ round = 1
    /\ \E a, b \in margs : HalvesOfParent(a, b)
    /\ Len(merged) >= 2

\* C3: non-overlap. When merge returns, no two entries of the result share an
\* address (so neither contains the other and no network appears twice).
C3_NonOverlap ==
    mpc = "ret" =>
        \A i, j \in 1..Len(merged) :
            i # j => Covers(merged[i]) \cap Covers(merged[j]) = {}

\* merge(X) has returned for an X in which one network contains another and
\* a range appears at two prefix lengths from the same base
C3_Witness ==
    /\ mpc = "ret"
    /\ round = 1
    /\ \E a, b \in margs : StrictlyInside(a, b) /\ a.base # b.base
    /\ \E a, b \in margs : a.base = b.base /\ a.plen # b.plen
    /\ Len(merged) >= 2

\* C9: idempotence. Merging the set of networks of merge(X) again returns the
\* same sequence as merge(X).
C9_Idempotent ==
    (round = 2 /\ mpc = "ret") => merged = first

\* the second merge has returned, over a first result of two or more
\* networks one of which is a collapsed parent block
C9_Witness ==
    /\ round = 2
    /\ mpc = "ret"
    /\ Len(first) >= 2
    /\ \E i \in 1..Len(first) : first[i].plen < Bits - 1

\* C10: order. When merge returns, the result is strictly ascending by base
\* address.
C10_Ascending ==
    mpc = "ret" =>
        \A i \in 1..(Len(merged) - 1) : merged[i].base < merged[i + 1].base

\* merge(X) has returned three or more networks for an X in which two
\* networks share a base address
C10_Witness ==
    /\ mpc = "ret"
    /\ round = 1
    /\ Len(merged) >= 3
    /\ \E a, b \in margs : a # b /\ a.base = b.base

\* C15: accumulator invariant. In every state of the pass, whatever step was
\* taken last, the accumulator is strictly ascending by base address, holds
\* no two networks one of which lies inside the other, and no two
\* neighbours that are the two halves of a parent.
C15_AccumulatorInvariant ==
    /\ \A i \in 1..(Len(merged) - 1) :
          /\ merged[i].base < merged[i + 1].base
          /\ ~HalvesOfParent(merged[i], merged[i + 1])
    /\ \A i, j \in 1..Len(merged) :
          i # j => ~(Covers(merged[i]) \subseteq Covers(merged[j]))

\* in the middle of a pass over an argument in which a network was skipped,
\* a collapse has taken the last entry off the accumulator, which still
\* holds a network, and the parent is in hand
C15_Witness ==
    /\ mpc = "while"
    /\ round = 1
    /\ addr \notin margs
    /\ merged # <<>>
    /\ \E a, b \in margs : StrictlyInside(a, b)

\* the entries of s that are networks of family v, in the order of s
OfVersion(s, v) == SelectSeq(s, LAMBDA n : n.ver = v)

\* s is the beginning of t
IsPrefix(s, t) == Len(s) <= Len(t) /\ s = SubSeq(t, 1, Len(s))

\* what has been written so far, against the two merged lists
EmissionRouted ==
    LET v4 == OfVersion(out, 4)
        v6 == OfVersion(out, 6)
    IN  /\ out = v4 \o v6
        /\ IsPrefix(v4, merged_v4)
        /\ OfVersion(out_v6, 4) = <<>>
        /\ (v6 # <<>> \/ out_v6 # <<>>) => v4 = merged_v4
        /\ IF output_v6 = "second"
           THEN v6 = <<>> /\ IsPrefix(out_v6, merged_v6)
           ELSE out_v6 = <<>> /\ IsPrefix(v6, merged_v6)
        /\ pc = "done" =>
              /\ v4 = merged_v4
              /\ merged_v6 = IF output_v6 = "second" THEN out_v6 ELSE v6

\* a step that writes a line writes it to a file that is not closed
NoWriteAfterClose ==
    /\ out' # out => "output" \notin closed
    /\ out_v6' # out_v6 => "second" \notin closed

\* C11: emission order and routing. The IPv4 networks are written to output
\* in the order merge returned them and all of them before any IPv6 network
\* is written; with a second file every IPv6 network goes to it and none to
\* output, without one they follow the IPv4 lines in output; and no line is
\* written to a file that has been closed.
C11_EmissionOrder == []EmissionRouted /\ [][NoWriteAfterClose]_vars

\* a run without a second file has ended with two IPv4 lines and an IPv6
\* line in output
C11_Witness ==
    /\ pc = "done"
    /\ output_v6 = "output"
    /\ Len(OfVersion(out, 4)) >= 2
    /\ OfVersion(out, 6) # <<>>
    /\ closed = {"output"}

\* ---------------------------------------------- claims about the progress
\* the domains whose call of resolve_dns has returned
ReturnedDomains == { d \in domains : results[d].done }

\* C18: progress accounting. The progress lines report 1, 2, ... domains in
\* that order, each with the size of the domain set as the total, and never
\* more domains than calls of resolve_dns have returned; neither divisor of
\* a line is 0; once the resolution has ended there is one line for every
\* domain, and the last one reports every domain and no time remaining.
C18_ProgressAccounting ==
    /\ \A i \in 1..Len(progress) :
          /\ progress[i].resolved = i
          /\ progress[i].total = Cardinality(domains)
          /\ progress[i].resolved # 0
          /\ progress[i].total # 0
    /\ Len(progress) <= Cardinality(ReturnedDomains)
    /\ dns_jobs = 0 => progress = <<>>
    /\ (dns_jobs # 0 /\ pc \in AfterResolution) =>
          /\ Len(progress) = Cardinality(domains)
          /\ progress # <<>> =>
                LET last == progress[Len(progress)]
                IN  /\ last.resolved = last.total
                    /\ ProgressPercent(last) = 100
                    /\ \A e \in 0..MaxElapsed : RemainingSeconds(e, last) = 0

\* two of three domains have been reported while the calls for all three
\* have returned, one of them with a failure
C18_Witness ==
    /\ pc = "collect"
    /\ Len(progress) = 2
    /\ Cardinality(domains) = 3
    /\ Cardinality(ReturnedDomains) = 3
    /\ \E d \in domains : results[d].done /\ results[d].res = {}

\* -------------------------------------------- claims about the domain set
\* every element is the text of a hostname, not empty and without a '*.'
DomainsWellFormed ==
    \A d \in domains : d # NoneHost /\ d # <<>> /\ StripWildcard(d) = d

\* the hostnames a URL item is to add: its host, lower-cased, with or
\* without a scheme in front; none when urlsplit refuses it or no host is
\* written in it
HostsOf(u) ==
    IF u.valid /\ u.host # <<>>
    THEN { [i \in 1..Len(u.host) |-> Lower(u.host[i])] }
    ELSE {}

\* a step that reads a URL item adds the hostnames of some URL item
UrlAddsItsHost ==
    (pc = "url" /\ row' # row) =>
        \E u \in UrlTokens : domains' = domains \cup HostsOf(u)

\* C17: domain set well-formedness. Every element of the domain set is a
\* non-empty hostname without a leading '*.'; a URL item adds its host,
\* also when it is written without a scheme ('host/path'), and adds nothing
\* when it does not parse or holds no host.
C17_DomainsWellFormed == []DomainsWellFormed /\ [][UrlAddsItsHost]_vars

\* ------------------------------------------- claims about the address set
\* the host bits of n are zero
Canonical(n) == n.base % BlockSize(n.plen) = 0

\* every member is canonical and passes the six tests
MembersAccepted == \A n \in addrs : Canonical(n) /\ ~Rejected(n)

\* what a result adds to the set is what passes the six tests, no more and
\* no less
ResolvedThroughAddAddr ==
    (pc = "collect" /\ addrs' # addrs) =>
        /\ futures # <<>>
        /\ addrs' = addrs \cup
              { IpNetwork(t) : t \in { x \in results[Head(futures)].res :
                                          Parses(x) /\ ~Rejected(IpNetwork(x)) } }

\* C16: address set invariant. Every member of the address set, from a raw
\* item or from a lookup, has its host bits zero and is rejected by none of
\* the six tests of add_addr; and a result changes the set only by what
\* add_addr lets through.
C16_AddressSetInvariant == []MembersAccepted /\ [][ResolvedThroughAddAddr]_vars

\* the resolution has ended on a set that held a raw network: one result
\* held an address add_addr rejects and an address that is now in the set
C16_Witness ==
    /\ pc = "merge4"
    /\ raw_addrs # {}
    /\ \E d \in domains :
          /\ \E t \in results[d].res : Rejected(IpNetwork(t))
          /\ \E t \in results[d].res : IpNetwork(t) \in addrs \ raw_addrs

\* the items add_addr is to leave the set S alone for: text that is no
\* network, a network one of the six tests rejects, a member of S
Unacceptable(S, t) ==
    \/ ~Parses(t)
    \/ Rejected(IpNetwork(t))
    \/ IpNetwork(t) \in S

\* every address a lookup may return
AnswerTokens == UNION { Range(ans) : ans \in Answers }

\* add_addr leaves the set as it is for every such item
RejectionKeepsSet ==
    \A t \in RawTokens \cup AnswerTokens :
        Unacceptable(addrs, t) => AddAddr(addrs, t) = addrs

\* the step that reads a raw item leaves the set alone or adds one
\* acceptable network to it, and the main flow stays in the loop over the
\* items
RawContinues ==
    (pc = "raw" /\ row' # row) =>
        /\ pc' = "raw"
        /\ row'.raw = row.raw - 1
        /\ \/ addrs' = addrs
           \/ \E t \in RawTokens :
                 /\ ~Unacceptable(addrs, t)
                 /\ addrs' = addrs \cup {IpNetwork(t)}

\* the step that takes the empty result of a failed lookup leaves the set
\* alone, and the main flow stays in the loop over the results
FailedDomainKeepsSet ==
    (pc = "collect" /\ futures' # futures /\ results[Head(futures)].res = {}) =>
        /\ addrs' = addrs
        /\ pc' = "collect"
        /\ futures' = Tail(futures)
        /\ domains_resolved' = domains_resolved + 1

\* C19: rejection leaves the state unchanged. add_addr leaves the address
\* set as it was for text that is no network, for a network one of the six
\* tests rejects and for a network the set holds; so does the empty result
\* of a lookup that failed; and after each of them the main flow goes on to
\* the next item or result.
C19_RejectionLeavesUnchanged ==
    []RejectionKeepsSet /\ [][RawContinues /\ FailedDomainKeepsSet]_vars

\* the three raw items of a row have been read, one after the other, and
\* two of them have left the set as it was
C19_Witness ==
    /\ pc = "raw"
    /\ dns_jobs # 0
    /\ nrows = 1
    /\ budget = 0
    /\ row = NoRow
    /\ Cardinality(addrs) = 1

\* ------------------------------------------------ claims about the threads
\* The positions of the main flow while it reads the dump.
Reading == {"rows", "raw", "dom", "url"}

\* no thread of the pool has started while raw items are still read, and
\* none is at work while merge runs
PhasesApart ==
    /\ pc \in Reading =>
          /\ \A w \in Workers : worker[w].st = "idle"
          /\ \A d \in AllDomains : calls[d] = 0
          /\ work_queue = <<>>
    /\ mpc # "idle" => \A w \in Workers : worker[w].st = "idle"

\* a step that changes the address set is a step of the main flow, reading a
\* raw item or taking a result, and merge is not running
SingleWriter ==
    addrs' # addrs =>
        /\ worker' = worker
        /\ pc \in {"raw", "collect"}
        /\ mpc = "idle"

\* C12: serialized insertion. Only the main flow ever changes the address
\* set, so no two threads insert at once; the raw items are all read before
\* a thread of the pool starts; and the set does not change, and no thread
\* of the pool is at work, while merge runs.
C12_SerializedInsertion == []PhasesApart /\ [][SingleWriter]_vars

\* the main flow has put a resolved address into a set that held a raw one,
\* while a thread of the pool is still inside resolve_dns
C12_Witness ==
    /\ pc = "collect"
    /\ raw_addrs # {}
    /\ addrs # raw_addrs
    /\ \E w \in Workers : worker[w].st # "idle"

\* ------------------------------------------------ claims about resolve_dns
\* what resolve_dns may return: the distinct addresses of a successful
\* attempt, or the empty set
Returned == { Range(ans) : ans \in Answers } \cup {{}}

\* what a step may do to thread w and to the results
RetryStep(w) ==
    LET a == worker[w]
        b == worker'[w]
    IN  /\ (a.st = "lookup" /\ b # a) =>
              \/ /\ b = [st |-> "sleep", dom |-> a.dom]
                 /\ results' = results
              \/ /\ b = Idle
                 /\ \E r \in Returned :
                       results' = [results EXCEPT ![a.dom] = [done |-> TRUE, res |-> r]]
        /\ (a.st = "sleep" /\ b # a) =>
              /\ b = [st |-> "lookup", dom |-> a.dom]
              /\ results' = results
        /\ b # a => pc' = pc

\* a result is set once, by the thread whose attempt has just ended
ReturnsOnce ==
    \A d \in AllDomains :
        /\ results[d].done => results'[d] = results[d]
        /\ results'[d] # results[d] =>
              \E w \in Workers :
                  /\ worker[w] = [st |-> "lookup", dom |-> d]
                  /\ worker'[w] = Idle

\* C13: retry policy of resolve_dns. An attempt that fails with EAI_AGAIN
\* sets no result and is followed, after the sleep, by another attempt for
\* the same domain; a result is set only by an attempt that returns
\* addresses (the result is their set) or fails otherwise (the result is the
\* empty set, and the domain is not tried again); and a thread's step never
\* moves the main flow.
C13_RetryPolicy ==
    /\ [][ReturnsOnce /\ \A w \in Workers : RetryStep(w)]_vars
    /\ \A w \in Workers : (worker[w].st = "sleep") ~> (worker[w].st = "lookup")

\* a thread sleeps after a transient failure while the lookup of another
\* domain has failed for good
C13_Witness ==
    /\ \E w \in Workers : worker[w].st = "sleep" /\ ~results[worker[w].dom].done
    /\ \E d \in domains : results[d].done /\ results[d].res = {}

\* the threads that are inside a call of resolve_dns, asleep or not
InProgress == { w \in Workers : worker[w].st # "idle" }

\* no more calls are in progress than dns_jobs, each for a domain of its own
BoundedPool ==
    /\ Cardinality(InProgress) <= dns_jobs
    /\ Cardinality({ worker[w].dom : w \in InProgress }) = Cardinality(InProgress)

\* a thread inside a call stays with its domain until the call has returned,
\* and takes a domain only when it is idle
OneAtATime ==
    \A w \in Workers :
        /\ (worker[w].st # "idle" /\ worker'[w].st # "idle") =>
              worker'[w].dom = worker[w].dom
        /\ (worker[w].st # "idle" /\ worker'[w].st = "idle") =>
              results'[worker[w].dom].done
        /\ (worker[w].st = "idle" /\ worker'[w].st # "idle") =>
              /\ work_queue # <<>>
              /\ worker'[w] = [st |-> "lookup", dom |-> Head(work_queue)]

\* C14: bounded pool. At most dns_jobs calls of resolve_dns are in progress
\* at any time, sleeping ones included, each by a thread of its own; a
\* thread keeps its domain until its call has returned and only then takes
\* the next one.
C14_BoundedPool == []BoundedPool /\ [][OneAtATime]_vars

\* with dns_jobs = 1 the one thread sleeps between two attempts while a
\* second domain waits in the queue
C14_Witness ==
    /\ dns_jobs = 1
    /\ \E w \in Workers : worker[w].st = "sleep"
    /\ work_queue # <<>>

=============================================================================
